---- MODULE Spec2Model ----
(***************************************************************************)
(* Static interface pattern: the binder type<INTERFACE, DETAILS>           *)
(* (helpers.h), the sample implementation details::A with its counter      *)
(* g_count (a.h) and the consumer B<T>::bar (b.cpp).                       *)
(***************************************************************************)
EXTENDS Integers, Sequences, FiniteSets, TLC

VARIABLES
    holder,     \* per storage slot: what object lives there
    d_live,     \* slots whose embedded member d (a details::A) is alive
    g_count,    \* details::g_count
    start,      \* per slot: counter value observed when the binder was constructed
    calls,      \* per slot: foo() calls made through the binder since construction
    out,        \* what has been written to std::cout
    n_func0,    \* number of func0 invocations made through the interface
    acc,        \* accessor results of the latest interface call
    trace,      \* call/return events of bar() and of the foo() it makes
    raised,     \* outcome of the latest forwarded implementation operation
    seen,       \* outcome the caller of the latest operation observed
    ref_count,  \* g_count of the reference run using a standalone details::A
    ref_out,    \* std::cout of the reference run
    pc,         \* per thread: position inside foo()
    tmp,        \* per thread: value loaded from g_count
    tgt,        \* per thread: slot of the binder foo() was called on
    done,       \* per thread: foo() calls that have returned
    overlapped  \* some foo() call ran while another was between load and store

vars == <<holder, d_live, g_count, start, calls, out, n_func0, acc, trace,
          raised, seen, ref_count, ref_out, pc, tmp, tgt, done, overlapped>>

seqVars == <<holder, d_live, g_count, start, calls, out, n_func0, acc, trace,
             raised, seen, ref_count, ref_out>>

thrVars == <<pc, tmp, tgt, done, overlapped>>

-----------------------------------------------------------------------------
(* Bounds *)

NSlots == 3
MaxCount == 3
MaxOut == 2
MaxBar == 2
NThreads == 2
CallsPerThread == 2

Slots == 1..NSlots
Threads == 1..NThreads

-----------------------------------------------------------------------------
(* Object layout of type<interface::A, details::A> *)

INT_MAX == 2147483647
INT_MIN == -INT_MAX - 1

SizeofType == 1
InterfaceOffset == 0
OffsetOfD == 0

ObjAddr(s) == s * SizeofType

\* implicit derived-to-base conversion of `this` when an interface method is called
IfacePtr(s) == ObjAddr(s) + InterfaceOffset

static_cast_type(i) == i - InterfaceOffset

AddrOfD(t) == t + OffsetOfD

details_wrong(i) == AddrOfD(static_cast_type(i) + SizeofType)

details(i) == AddrOfD(static_cast_type(i))

details_const_null(i) == 0

details_const(i) == AddrOfD(static_cast_type(i))

\* the binders alive: caller-held ones and the m_a members of B<A> objects
IsBinder(s) == holder[s] \in {"caller", "member"}

live == {s \in Slots : IsBinder(s)}

LiveD == {AddrOfD(ObjAddr(s)) : s \in d_live}

\* the B objects alive; B<T> holds its T as the member m_a
IsB(s) == holder[s] \in {"member", "memberT"}

m_a(s) == ObjAddr(s)

-----------------------------------------------------------------------------
(* details::A *)

A_foo_twice(g) == IF g >= INT_MAX - 1 THEN INT_MIN ELSE g + 2

\* g_count += 1 on a 32-bit int; the signed overflow wraps in the builds at hand
A_foo(g) == IF g = INT_MAX THEN INT_MIN ELSE g + 1

A_func0_noendl(o) == o \o <<"calling static f0()">>

A_func0(o) == o \o <<"calling static f0()", "\n">>

\* foo() through pointer p: defined only when p designates a live details::A;
\* otherwise the call is undefined and may or may not take effect
CallFoo(p, g) == IF p \in LiveD THEN {A_foo(g)} ELSE {g, A_foo(g)}

\* the counter an observer reads through the binder in slot s
Counter(s) == g_count

-----------------------------------------------------------------------------
(* interface::A<T>: each operation obtains the bound implementation through
   the accessor and forwards to it *)

RECURSIVE FooTimes(_, _, _)
FooTimes(n, p, G) ==
    IF n = 0 THEN G ELSE FooTimes(n - 1, p, UNION {CallFoo(p, g) : g \in G})

RECURSIVE RefTimes(_, _)
RefTimes(n, g) == IF n = 0 THEN g ELSE RefTimes(n - 1, A_foo(g))

\* n successive calls x.foo() on the binder in slot s, mirrored in the
\* reference run by n direct calls of details::A::foo
Interface_foo(s, n) ==
    LET i == IfacePtr(s)
        p == details(i)
    IN  /\ \E g \in FooTimes(n, p, {g_count}) : g_count' = g
        /\ acc' = [i |-> i, p |-> p, cp |-> details_const(i)]
        /\ calls' = [calls EXCEPT ![s] = @ + n]
        /\ ref_count' = RefTimes(n, ref_count)
        /\ raised' = "return"

Interface_func0 ==
    /\ out' = A_func0(out)
    /\ ref_out' = A_func0(ref_out)
    /\ raised' = "return"

-----------------------------------------------------------------------------
(* B<T>::bar *)

\* what T::foo may do when T is not the binder A: return, or throw
TFooOutcomes == {"return", "E1", "E2"}

bar_handlers_catch_all == {"E1", "E2"}

\* the exceptions bar() catches: it has no try block
bar_handlers == {}

Unwind(o, handlers) == IF o \in handlers THEN "return" ELSE o

Event(e, b, this) == [ev |-> e, b |-> b, this |-> this]

bar_body_twice(m) ==
    <<Event("foo.call", 0, m), Event("foo.exit", 0, m),
      Event("foo.call", 0, m), Event("foo.exit", 0, m)>>

\* the body of bar(): m_a.foo();  (exit: control leaves foo, by return or throw)
bar_body(m) == <<Event("foo.call", 0, m), Event("foo.exit", 0, m)>>

NFoo(evs) == Cardinality({k \in DOMAIN evs : evs[k].ev = "foo.call"})

BarCalls == Cardinality({k \in DOMAIN trace : trace[k].ev = "bar.call"})

-----------------------------------------------------------------------------
(* Sequential program: one caller constructs, uses and destroys objects *)

NoAcc == [i |-> 0, p |-> 0, cp |-> 0]

Init ==
    /\ holder = [s \in Slots |-> "none"]
    /\ d_live = {}
    /\ g_count = 0
    /\ start = [s \in Slots |-> 0]
    /\ calls = [s \in Slots |-> 0]
    /\ out = <<>>
    /\ n_func0 = 0
    /\ acc = NoAcc
    /\ trace = <<>>
    /\ raised = "none"
    /\ seen = "none"
    /\ ref_count = 0
    /\ ref_out = <<>>
    /\ pc = [t \in Threads |-> "idle"]
    /\ tmp = [t \in Threads |-> 0]
    /\ tgt = [t \in Threads |-> 0]
    /\ done = [t \in Threads |-> 0]
    /\ overlapped = FALSE

\* A x;  constructs the binder and, with it, its member d
Construct(s) ==
    /\ holder[s] = "none"
    /\ holder' = [holder EXCEPT ![s] = "caller"]
    /\ d_live' = d_live \cup {s}
    /\ start' = [start EXCEPT ![s] = Counter(s)]
    /\ calls' = [calls EXCEPT ![s] = 0]
    /\ UNCHANGED <<g_count, out, n_func0, acc, trace, raised, seen,
                   ref_count, ref_out>>
    /\ UNCHANGED thrVars

Destroy(s) ==
    /\ holder[s] = "caller"
    /\ holder' = [holder EXCEPT ![s] = "none"]
    /\ d_live' = d_live \ {s}
    /\ start' = [start EXCEPT ![s] = 0]
    /\ calls' = [calls EXCEPT ![s] = 0]
    /\ UNCHANGED <<g_count, out, n_func0, acc, trace, raised, seen,
                   ref_count, ref_out>>
    /\ UNCHANGED thrVars

\* B<A> b (k = "member") or B<T> b for another T (k = "memberT"), in slot s;
\* constructing b constructs its member m_a
ConstructB(s, k) ==
    /\ holder[s] = "none"
    /\ holder' = [holder EXCEPT ![s] = k]
    /\ d_live' = IF k = "member" THEN d_live \cup {s} ELSE d_live
    /\ start' = [start EXCEPT ![s] = IF k = "member" THEN Counter(s) ELSE 0]
    /\ calls' = [calls EXCEPT ![s] = 0]
    /\ UNCHANGED <<g_count, out, n_func0, acc, trace, raised, seen,
                   ref_count, ref_out>>
    /\ UNCHANGED thrVars

DestroyB(s) ==
    /\ IsB(s)
    /\ holder' = [holder EXCEPT ![s] = "none"]
    /\ d_live' = d_live \ {s}
    /\ start' = [start EXCEPT ![s] = 0]
    /\ calls' = [calls EXCEPT ![s] = 0]
    /\ UNCHANGED <<g_count, out, n_func0, acc, trace, raised, seen,
                   ref_count, ref_out>>
    /\ UNCHANGED thrVars

\* x.foo() on a binder the caller holds
Foo(s) ==
    /\ holder[s] = "caller"
    /\ ref_count < MaxCount
    /\ Interface_foo(s, 1)
    /\ seen' = raised'
    /\ UNCHANGED <<holder, d_live, start, out, n_func0, trace, ref_out>>
    /\ UNCHANGED thrVars

\* A::func0()
Func0 ==
    /\ n_func0 < MaxOut
    /\ Interface_func0
    /\ n_func0' = n_func0 + 1
    /\ seen' = raised'
    /\ UNCHANGED <<holder, d_live, g_count, start, calls, acc, trace,
                   ref_count>>
    /\ UNCHANGED thrVars

\* b.bar() on the B object in slot s; o is what T::foo does when T is not
\* the binder A
Bar(s, o) ==
    /\ IsB(s)
    /\ BarCalls < MaxBar
    /\ LET m == m_a(s)
           body == bar_body(m)
       IN  /\ trace' = trace \o <<Event("bar.call", s, m)>> \o body
                             \o <<Event("bar.exit", s, m)>>
           /\ IF holder[s] = "member"
              THEN /\ o = "return"
                   /\ ref_count < MaxCount
                   /\ Interface_foo(s, NFoo(body))
              ELSE /\ raised' = o
                   /\ UNCHANGED <<g_count, acc, calls, ref_count>>
    /\ seen' = Unwind(raised', bar_handlers)
    /\ UNCHANGED <<holder, d_live, start, out, n_func0, ref_out>>
    /\ UNCHANGED thrVars

Next ==
    \/ \E s \in Slots : Construct(s)
    \/ \E s \in Slots : Destroy(s)
    \/ \E s \in Slots : Foo(s)
    \/ Func0

Spec == Init /\ [][Next]_vars

\* the program that uses the binder only through B objects
NextB ==
    \/ \E s \in Slots, k \in {"member", "memberT"} : ConstructB(s, k)
    \/ \E s \in Slots : DestroyB(s)
    \/ \E s \in Slots, o \in TFooOutcomes : Bar(s, o)

SpecB == Init /\ [][NextB]_vars

-----------------------------------------------------------------------------
(* Concurrent program: threads call foo() on binders constructed beforehand.
   g_count is a plain volatile int: `g_count += 1` is a load followed by a
   store, with no synchronisation between threads *)

RECURSIVE SumOver(_, _)
SumOver(f, S) ==
    IF S = {} THEN 0
    ELSE LET x == CHOOSE y \in S : TRUE IN f[x] + SumOver(f, S \ {x})

Returned == SumOver(done, Threads)

AllIdle == \A t \in Threads : pc[t] = "idle"

\* the binders the threads share: two distinct ones
ConcSlots == {1, NSlots}

ConcInit ==
    /\ holder = [s \in Slots |-> "caller"]
    /\ d_live = Slots
    /\ g_count = 0
    /\ start = [s \in Slots |-> 0]
    /\ calls = [s \in Slots |-> 0]
    /\ out = <<>>
    /\ n_func0 = 0
    /\ acc = NoAcc
    /\ trace = <<>>
    /\ raised = "none"
    /\ seen = "none"
    /\ ref_count = 0
    /\ ref_out = <<>>
    /\ pc = [t \in Threads |-> "idle"]
    /\ tmp = [t \in Threads |-> 0]
    /\ tgt = [t \in Threads |-> 0]
    /\ done = [t \in Threads |-> 0]
    /\ overlapped = FALSE

\* thread t enters x.foo() on the binder in slot s and loads g_count
T_Load(t, s) ==
    /\ pc[t] = "idle"
    /\ done[t] < CallsPerThread
    /\ holder[s] = "caller"
    /\ details(IfacePtr(s)) \in LiveD
    /\ tmp' = [tmp EXCEPT ![t] = g_count]
    /\ tgt' = [tgt EXCEPT ![t] = s]
    /\ pc' = [pc EXCEPT ![t] = "loaded"]
    /\ overlapped' = (overlapped \/ \E u \in Threads \ {t} : pc[u] = "loaded")
    /\ UNCHANGED done
    /\ UNCHANGED seqVars

\* thread t stores the incremented value and returns from foo()
T_Store(t) ==
    /\ pc[t] = "loaded"
    /\ g_count' = A_foo(tmp[t])
    /\ calls' = [calls EXCEPT ![tgt[t]] = @ + 1]
    /\ pc' = [pc EXCEPT ![t] = "idle"]
    /\ done' = [done EXCEPT ![t] = @ + 1]
    /\ tgt' = [tgt EXCEPT ![t] = 0]
    /\ UNCHANGED <<tmp, overlapped>>
    /\ UNCHANGED <<holder, d_live, start, out, n_func0, acc, trace,
                   raised, seen, ref_count, ref_out>>

ConcNext ==
    \/ \E t \in Threads, s \in ConcSlots : T_Load(t, s)
    \/ \E t \in Threads : T_Store(t)

SpecConc == ConcInit /\ [][ConcNext]_vars

-----------------------------------------------------------------------------
(* Properties *)

DAddr(s) == AddrOfD(ObjAddr(s))

\* C1: foo() calls made through one binder leave the counter observed for
\* every other binder unchanged: a binder through which no foo() call was
\* made still shows the counter it showed when it was constructed.
C1_Isolation == \A y \in live : calls[y] = 0 => Counter(y) = start[y]

\* C2: a binder whose counter started at 0 and through which exactly k foo()
\* calls were made shows the counter k.
C2_CounterEqualsCalls == \A s \in live : start[s] = 0 => Counter(s) = calls[s]

\* C3: the run through the binder and the reference run that calls the
\* standalone details::A directly agree on the counter and on the output
\* after every step.
C3_Equivalence == g_count = ref_count /\ out = ref_out

C3_Witness == g_count >= 2 /\ Len(out) >= 2 /\ g_count = ref_count /\ out = ref_out

\* C4: for every live binder both accessor overloads, given the binder's
\* interface base pointer, return the address of that binder's own member d:
\* a live implementation, not null, no other binder's d, the same object for
\* both overloads; the pointers obtained in the latest interface call agree.
C4_Accessors ==
    /\ \A s \in live :
          LET i == IfacePtr(s)
          IN  /\ details(i) = DAddr(s)
              /\ details_const(i) = DAddr(s)
              /\ details(i) # 0
              /\ details(i) \in LiveD
              /\ \A r \in live \ {s} : details(i) # DAddr(r)
    /\ acc.i # 0 => (acc.p = acc.cp /\ acc.p # 0)

C4_Witness == Cardinality(live) >= 2 /\ acc.i # 0 /\ acc.p = DAddr(NSlots)

\* C5: there are as many live implementation instances as live binders, and
\* every binder started with its counter at 0 when it was constructed.
C5_Lifetime ==
    /\ Cardinality(d_live) = Cardinality(live)
    /\ \A s \in live : start[s] = 0

\* C7: each func0 invocation appends exactly the fixed message and a line
\* end to the output and changes no counter, whatever the counter state; the
\* output consists of one such message per invocation.
C7_Func0 ==
    /\ [][n_func0' = n_func0 + 1 =>
            /\ out' = out \o <<"calling static f0()", "\n">>
            /\ g_count' = g_count
            /\ calls' = calls]_vars
    /\ [](Len(out) = 2 * n_func0)

C7_Witness == n_func0 >= 2 /\ g_count >= 1 /\ Len(out) = 2 * n_func0

C9_BarTrace ==
    /\ Len(trace) = 4 * BarCalls
    /\ NFoo(trace) = BarCalls
    /\ \A k \in 0..(BarCalls - 1) :
          LET c == trace[4 * k + 1]
          IN  /\ c.ev = "bar.call"
              /\ trace[4 * k + 2] = Event("foo.call", 0, c.this)
              /\ trace[4 * k + 3] = Event("foo.exit", 0, c.this)
              /\ trace[4 * k + 4] = Event("bar.exit", c.b, c.this)

C9_Witness == BarCalls >= 2 /\ trace[1].b # trace[5].b /\ trace[1].this # trace[5].this

\* C10: once all foo() calls of all threads have returned, the counter has
\* increased by the number of calls made.
C10_NoLostUpdate == AllIdle => g_count = Returned

\* C10 amended: once all calls have returned the counter has increased by at
\* most the number of calls made and by at least 1 if any call was made; it
\* has increased by exactly that number when no two calls overlapped.
C10_Amended ==
    AllIdle =>
        /\ g_count <= Returned
        /\ (Returned >= 1 => g_count >= 1)
        /\ (~overlapped => g_count = Returned)

C10_Witness == AllIdle /\ Returned = NThreads * CallsPerThread /\ g_count < Returned

====
